---- MODULE Spec2Model ----
(***************************************************************************)
(* Model of the mixed-derivative operator (Numerics/derivatives.h) and of  *)
(* the Black-Scholes PDE coefficient generator and the uniform grid        *)
(* (Numerics/grid.cpp).                                                    *)
(*                                                                         *)
(* A std::vector<double> is a TLA+ sequence: the element the code calls    *)
(* v[i] is v[i + 1] here.  The doubles of the mixed-derivative operator    *)
(* are small integers, which doubles represent and combine exactly.  The   *)
(* doubles of the coefficient generator are exact rationals <<num, den>>.  *)
(***************************************************************************)
EXTENDS Integers, Sequences, FiniteSets, TLC

VARIABLES
    d1dx1,        \* MixedDerivative::d1dx1, the operator of the x axis
    d1dy1,        \* MixedDerivative::d1dy1, the operator of the y axis
    prefactors,   \* MixedDerivative::prefactors
    lastOp,       \* the member function called last
    args,         \* the arguments of that call
    touched,      \* the indices of prefactors that call read or wrote
    result,       \* outcome and value of the last d2dxdy call
    genArgs,      \* arguments of the last generator::prefactor call
    genOut        \* value returned by the last generator::prefactor call

vars == <<d1dx1, d1dy1, prefactors, lastOp, args, touched, result, genArgs, genOut>>

-----------------------------------------------------------------------------
(* Bounds of the model *)

MaxNx == 3          \* largest order of the x operator (smallest is 3)
MaxNy == 4          \* largest order of the y operator (smallest is 3)
MaxVal == 2         \* scalars, vector offsets and garbage values are 0..MaxVal
MaxRatePct == 5     \* rate is k/100, k in 0..MaxRatePct
MaxSigmaTenths == 2 \* sigma is k/10, k in 0..MaxSigmaTenths
MaxPoints == 3      \* grids have 2..MaxPoints points

-----------------------------------------------------------------------------
(* std::vector<double> *)

\* v[i], i counted from 0 as in the code
At(v, i) == v[i + 1]

\* std::vector<double> tmp(n, value)
Filled(n, value) == [k \in 1..n |-> value]

\* The indices 0..size-1 of a vector
Indices(v) == 0..(Len(v) - 1)

-----------------------------------------------------------------------------
(* The 1-D operators held by the MixedDerivative: first-derivative stencils *)
(* on the uniform grid of spacing 1/2, where every weight is an integer.    *)

\* Weight of row r, column c (both from 0) of a first-derivative stencil:
\* interior central difference (-1/2h, 0, 1/2h); boundary rows one-sided of
\* first order (c2b1) or second order (c2b2), mirrored at the far edge.
Coef(op, r, c) ==
    LET n == op.n IN
    IF op.scheme = "c2b1" /\ r = 0 THEN
        (IF c = 0 THEN -2 ELSE IF c = 1 THEN 2 ELSE 0)
    ELSE IF op.scheme = "c2b1" /\ r = n - 1 THEN
        (IF c = n - 2 THEN -2 ELSE IF c = n - 1 THEN 2 ELSE 0)
    ELSE IF op.scheme = "c2b2" /\ r = 0 THEN
        (IF c = 0 THEN -3 ELSE IF c = 1 THEN 4 ELSE IF c = 2 THEN -1 ELSE 0)
    ELSE IF op.scheme = "c2b2" /\ r = n - 1 THEN
        (IF c = n - 3 THEN 1 ELSE IF c = n - 2 THEN -4 ELSE IF c = n - 1 THEN 3 ELSE 0)
    ELSE
        (IF c = r - 1 THEN -1 ELSE IF c = r + 1 THEN 1 ELSE 0)

\* BandDiagonalMatrix::order()
order(op) == op.n

RECURSIVE RowSum(_, _, _, _)
\* Sum over the columns c..n-1 of row r times v
RowSum(op, v, r, c) ==
    IF c = op.n THEN 0
    ELSE Coef(op, r, c) * At(v, c) + RowSum(op, v, r, c + 1)

\* BandDiagonalMatrix::action(v): the matrix-vector product, row by row
action(op, v) == [k \in 1..op.n |-> RowSum(op, v, k - 1, 0)]

-----------------------------------------------------------------------------
(* action_2d (utility.h): one 1-D operator applied along one axis of a     *)
(* field flattened as ix * n_y + iy.                                       *)

\* func[i]; a read past the end of func yields the value garbage
Read(func, i, garbage) == IF i < Len(func) THEN At(func, i) ELSE garbage

\* action_2d(n, m, dimension, prefactor, derivative, func): n is the extent of
\* the axis the operator acts along, m the extent of the other axis.
\* dimension 2: for every ix the slice iy |-> func[ix * n + iy] is replaced by
\* derivative.action(slice); dimension 1: for every iy the slice
\* ix |-> func[ix * m + iy] is replaced by derivative.action(slice).
action_2d(n, m, dimension, prefactor, derivative, func, garbage) ==
    LET SliceY(ix) == [k \in 1..n |-> Read(func, ix * n + (k - 1), garbage)]
        SliceX(iy) == [k \in 1..n |-> Read(func, (k - 1) * m + iy, garbage)]
    IN  IF dimension = 2
        THEN [k \in 1..(n * m) |->
                At(action(derivative, SliceY((k - 1) \div n)), (k - 1) % n)]
        ELSE [k \in 1..(n * m) |->
                At(action(derivative, SliceX((k - 1) % m)), (k - 1) \div m)]

-----------------------------------------------------------------------------
(* class MixedDerivative.  An object is a record of its three members; a    *)
(* member function returns the object after the call and the indices of    *)
(* prefactors it read or wrote.                                            *)

\* prefactors[i] = value, recording the index
Store(st, i, value) ==
    [obj |-> [st.obj EXCEPT !.prefactors =
                  IF i \in Indices(st.obj.prefactors)
                  THEN [st.obj.prefactors EXCEPT ![i + 1] = value]
                  ELSE st.obj.prefactors],
     touched |-> st.touched \cup {i}]

\* MixedDerivative with the prefactors filled with 0.0
MixedDerivative_zero_filled(d1dx1_, d1dy1_) ==
    LET tmp == Filled(order(d1dx1_) * order(d1dy1_), 0)
    IN  [d1dx1 |-> d1dx1_, d1dy1 |-> d1dy1_, prefactors |-> tmp]

\* MixedDerivative with the prefactors sized n_x + n_y
MixedDerivative_sum_sized(d1dx1_, d1dy1_) ==
    LET tmp == Filled(order(d1dx1_) + order(d1dy1_), 1)
    IN  [d1dx1 |-> d1dx1_, d1dy1 |-> d1dy1_, prefactors |-> tmp]

\* MixedDerivative(d1dx1_, d1dy1_)
MixedDerivative(d1dx1_, d1dy1_) ==
    LET tmp == Filled(order(d1dx1_) * order(d1dy1_), 1)
    IN  [d1dx1 |-> d1dx1_, d1dy1 |-> d1dy1_, prefactors |-> tmp]

RECURSIVE scalar_loop(_, _, _)
\* for (i = 0; i != prefactors.size(); ++i) prefactors[i] = scalar;
scalar_loop(st, scalar, i) ==
    IF i = Len(st.obj.prefactors) THEN st
    ELSE scalar_loop(Store(st, i, scalar), scalar, i + 1)

\* set_prefactors(scalar) that also assigns d1dx1 to d1dy1
set_prefactors_scalar_assigns_operator(self, scalar) ==
    LET st == scalar_loop([obj |-> self, touched |-> {}], scalar, 0)
    IN  [st EXCEPT !.obj.d1dy1 = self.d1dx1]

\* set_prefactors(const double scalar)
set_prefactors_scalar(self, scalar) ==
    scalar_loop([obj |-> self, touched |-> {}], scalar, 0)

RECURSIVE outer_loop(_, _, _, _, _, _)
\* for (i ...) for (j ...) { prefactors[i] = coef_x[i] * coef_y[j]; ++index; }
\* index counts the pairs visited and is used nowhere.
outer_loop(st, coef_x, coef_y, i, j, index) ==
    IF i = Len(coef_x) THEN st
    ELSE IF j = Len(coef_y) THEN outer_loop(st, coef_x, coef_y, i + 1, 0, index)
    ELSE outer_loop(Store(st, i, At(coef_x, i) * At(coef_y, j)),
                    coef_x, coef_y, i, j + 1, index + 1)

\* set_prefactors(coef_x, coef_y)
set_prefactors_outer(self, coef_x, coef_y) ==
    outer_loop([obj |-> self, touched |-> {}], coef_x, coef_y, 0, 0, 0)

RECURSIVE flat_loop_stops_short(_, _, _, _)
\* The flat loop ending one entry early
flat_loop_stops_short(st, factors, i, index) ==
    IF i = Len(factors) - 1 THEN st
    ELSE flat_loop_stops_short(Store(st, i, At(factors, i)), factors, i + 1, index + 1)

RECURSIVE flat_loop(_, _, _, _)
\* for (i = 0; i != factors.size(); ++i) { prefactors[i] = factors[i]; ++index; }
flat_loop(st, factors, i, index) ==
    IF i = Len(factors) THEN st
    ELSE flat_loop(Store(st, i, At(factors, i)), factors, i + 1, index + 1)

\* set_prefactors(factors)
set_prefactors_flat(self, factors) ==
    flat_loop([obj |-> self, touched |-> {}], factors, 0, 0)

RECURSIVE multiply_loop(_, _, _, _)
\* for (i = 0; i != n_x * n_y; ++i) func[i] *= prefactors[i];
multiply_loop(st, self, bound, i) ==
    IF i = bound THEN st
    ELSE multiply_loop(
            [func |-> [st.func EXCEPT ![i + 1] = @ * At(self.prefactors, i)],
             touched |-> st.touched \cup {i}],
            self, bound, i + 1)

\* d2dxdy without the derivative along x
d2dxdy_skips_x_pass(self, func, garbage) ==
    LET n_x == order(self.d1dx1)
        n_y == order(self.d1dy1)
        func1 == action_2d(n_y, n_x, 2, FALSE, self.d1dy1, func, garbage)
    IN  multiply_loop([func |-> func1, touched |-> {}], self, n_x * n_y, 0)

\* d2dxdy with the x operator applied as dimension 2
d2dxdy_wrong_dimension(self, func, garbage) ==
    LET n_x == order(self.d1dx1)
        n_y == order(self.d1dy1)
        func1 == action_2d(n_y, n_x, 2, FALSE, self.d1dy1, func, garbage)
        func2 == action_2d(n_x, n_y, 2, FALSE, self.d1dx1, func1, garbage)
    IN  multiply_loop([func |-> func2, touched |-> {}], self, n_x * n_y, 0)

\* d2dxdy(func); garbage is the value a read past the end of func yields
d2dxdy(self, func, garbage) ==
    LET n_x == order(self.d1dx1)
        n_y == order(self.d1dy1)
        func1 == action_2d(n_y, n_x, 2, FALSE, self.d1dy1, func, garbage)
        func2 == action_2d(n_x, n_y, 1, FALSE, self.d1dx1, func1, garbage)
    IN  multiply_loop([func |-> func2, touched |-> {}], self, n_x * n_y, 0)

-----------------------------------------------------------------------------
(* Exact rationals <<numerator, denominator>>, denominator > 0 *)

RECURSIVE Gcd(_, _)
Gcd(m, n) == IF n = 0 THEN m ELSE Gcd(n, m % n)

Abs(m) == IF m < 0 THEN -m ELSE m

\* The rational num/den in lowest terms
Reduced(num, den) ==
    LET g == Gcd(Abs(num), den) IN <<num \div g, den \div g>>

RNeg(a) == <<-a[1], a[2]>>
RAdd(a, b) == Reduced(a[1] * b[2] + b[1] * a[2], a[2] * b[2])
RSub(a, b) == RAdd(a, RNeg(b))
RMul(a, b) == Reduced(a[1] * b[1], a[2] * b[2])
\* a / b for b > 0
RDiv(a, b) == Reduced(a[1] * b[2], a[2] * b[1])
REq(a, b) == Reduced(a[1], a[2]) = Reduced(b[1], b[2])
RInt(k) == <<k, 1>>

-----------------------------------------------------------------------------
(* grid::uniform and bs::pde::generator::prefactor (grid.cpp) *)

\* grid::uniform(x_min, x_max, n_points), n_points >= 2
uniform(x_min, x_max, n_points) ==
    LET dx == RDiv(RSub(x_max, x_min), RInt(n_points - 1))
    IN  [k \in 1..n_points |-> RAdd(RMul(dx, RInt(k - 1)), x_min)]

\* 2 * x in place of x squared
pow2_doubles(x) == RMul(RInt(2), x)

\* std::pow(x, 2)
pow2(x) == RMul(x, x)

RECURSIVE prefactor_loop(_, _, _, _, _)
\* for (i = 0; i != spatial_grid.size(); ++i) { prefactor[0][i] = ...; ... }
prefactor_loop(prefactor, rate, sigma, spatial_grid, i) ==
    IF i = Len(spatial_grid) THEN prefactor
    ELSE prefactor_loop(
            [prefactor EXCEPT
                ![1][i + 1] = RNeg(rate),
                ![2][i + 1] = RMul(rate, At(spatial_grid, i)),
                ![3][i + 1] = RMul(<<1, 2>>, pow2(RMul(sigma, At(spatial_grid, i))))],
            rate, sigma, spatial_grid, i + 1)

\* bs::pde::generator::prefactor(rate, sigma, spatial_grid)
generator_prefactor(rate, sigma, spatial_grid) ==
    LET inner == Filled(Len(spatial_grid), RInt(0))
        prefactor == Filled(3, inner)
    IN  prefactor_loop(prefactor, rate, sigma, spatial_grid, 0)

-----------------------------------------------------------------------------
(* Inputs *)

\* The operators a MixedDerivative is built from
XOperators == {[scheme |-> "c2b1", n |-> n] : n \in 3..MaxNx}
YOperators == {[scheme |-> "c2b2", n |-> n] : n \in 3..MaxNy}

\* Argument vectors: a + k^2 at index k, and the unit vectors
Quadratic(a, n) == [k \in 1..n |-> a + (k - 1) * (k - 1)]
Unit(p, n) == [k \in 1..n |-> IF k = p THEN 1 ELSE 0]
Vectors(n) == {Quadratic(a, n) : a \in 0..MaxVal}
Units(n) == {Unit(p, n) : p \in 1..n}

\* The field f[ix * n_y + iy] = g[ix] * h[iy]
Separable(g, h) ==
    [k \in 1..(Len(g) * Len(h)) |->
        At(g, (k - 1) \div Len(h)) * At(h, (k - 1) % Len(h))]

Scalars == 0..MaxVal

\* Fields handed to d2dxdy between set_prefactors calls by an object of orders
\* nx and ny: one of the documented length nx * ny, one entry longer, one shorter.
SmallFields(nx, ny) ==
    {Quadratic(0, len) : len \in {nx * ny - 1, nx * ny, nx * ny + 1}}

\* Fields handed to d2dxdy when it is examined on its own: the unit fields,
\* the products of two axis vectors, and fields one entry longer or shorter.
Fields(nx, ny) ==
    Units(nx * ny)
    \cup {Separable(g, h) : g \in Vectors(nx) \cup Units(nx), h \in Vectors(ny) \cup Units(ny)}
    \cup Vectors(nx * ny + 1)
    \cup Vectors(nx * ny - 1)

Rates == {<<k, 100>> : k \in 0..MaxRatePct}
Sigmas == {<<k, 10>> : k \in 0..MaxSigmaTenths}
Grids ==
    {uniform(RInt(lo), RInt(hi), n) : lo \in {0, 50}, hi \in {100, 150}, n \in 2..MaxPoints}

-----------------------------------------------------------------------------
(* State machine *)

Self == [d1dx1 |-> d1dx1, d1dy1 |-> d1dy1, prefactors |-> prefactors]

NoArgs == [scalar |-> 0, coef_x |-> <<>>, coef_y |-> <<>>, factors |-> <<>>, func |-> <<>>]
NoResult == [outcome |-> "none", value |-> <<>>]
NoGenArgs == [rate |-> <<0, 1>>, sigma |-> <<0, 1>>, spatial_grid |-> <<>>]

\* The state after MixedDerivative md(d1dx1_, d1dy1_)
Init ==
    \E d1dx1_ \in XOperators, d1dy1_ \in YOperators :
        LET md == MixedDerivative(d1dx1_, d1dy1_) IN
        /\ d1dx1 = md.d1dx1
        /\ d1dy1 = md.d1dy1
        /\ prefactors = md.prefactors
        /\ lastOp = "MixedDerivative"
        /\ args = NoArgs
        /\ touched = {}
        /\ result = NoResult
        /\ genArgs = NoGenArgs
        /\ genOut = <<>>

\* The object after a set_prefactors call that returned st
Assign(st) ==
    /\ d1dx1' = st.obj.d1dx1
    /\ d1dy1' = st.obj.d1dy1
    /\ prefactors' = st.obj.prefactors
    /\ touched' = st.touched
    /\ result' = NoResult
    /\ UNCHANGED <<genArgs, genOut>>

SetPrefactorsScalar ==
    \E scalar \in Scalars :
        /\ Assign(set_prefactors_scalar(Self, scalar))
        /\ lastOp' = "set_prefactors_scalar"
        /\ args' = [NoArgs EXCEPT !.scalar = scalar]

SetPrefactorsOuter ==
    \E coef_x \in Vectors(order(d1dx1)), coef_y \in Vectors(order(d1dy1)) :
        /\ Assign(set_prefactors_outer(Self, coef_x, coef_y))
        /\ lastOp' = "set_prefactors_outer"
        /\ args' = [NoArgs EXCEPT !.coef_x = coef_x, !.coef_y = coef_y]

SetPrefactorsFlat ==
    \E factors \in Vectors(order(d1dx1) * order(d1dy1)) :
        /\ Assign(set_prefactors_flat(Self, factors))
        /\ lastOp' = "set_prefactors_flat"
        /\ args' = [NoArgs EXCEPT !.factors = factors]

\* d2dxdy(func).  A func shorter than n_x * n_y is read past its end: the
\* call reads some value there, or the process is stopped.
D2dxdyCall(func) ==
    \E garbage \in (IF Len(func) < order(d1dx1) * order(d1dy1) THEN 0..MaxVal ELSE {0}),
       crashed \in (IF Len(func) < order(d1dx1) * order(d1dy1) THEN BOOLEAN ELSE {FALSE}) :
        LET st == d2dxdy(Self, func, garbage) IN
        /\ lastOp' = "d2dxdy"
        /\ args' = [NoArgs EXCEPT !.func = func]
        /\ result' = IF crashed THEN [outcome |-> "crashed", value |-> <<>>]
                     ELSE [outcome |-> "returned", value |-> st.func]
        /\ touched' = IF crashed THEN {} ELSE st.touched
        /\ UNCHANGED <<d1dx1, d1dy1, prefactors, genArgs, genOut>>

D2dxdy ==
    \E func \in SmallFields(order(d1dx1), order(d1dy1)) : D2dxdyCall(func)

Next ==
    \/ SetPrefactorsScalar
    \/ SetPrefactorsOuter
    \/ SetPrefactorsFlat
    \/ D2dxdy

Spec == Init /\ [][Next]_vars

\* d2dxdy on its own: an object whose prefactors were set by the flat form,
\* and one d2dxdy call on it
InitD2 ==
    \E d1dx1_ \in XOperators, d1dy1_ \in YOperators :
        \E factors \in Vectors(order(d1dx1_) * order(d1dy1_))
                       \cup {Filled(order(d1dx1_) * order(d1dy1_), 1)} :
            LET st == set_prefactors_flat(MixedDerivative(d1dx1_, d1dy1_), factors) IN
            /\ d1dx1 = st.obj.d1dx1
            /\ d1dy1 = st.obj.d1dy1
            /\ prefactors = st.obj.prefactors
            /\ lastOp = "set_prefactors_flat"
            /\ args = [NoArgs EXCEPT !.factors = factors]
            /\ touched = st.touched
            /\ result = NoResult
            /\ genArgs = NoGenArgs
            /\ genOut = <<>>

D2dxdyOnce ==
    /\ lastOp # "d2dxdy"
    /\ \E func \in Fields(order(d1dx1), order(d1dy1)) : D2dxdyCall(func)

NextD2 == D2dxdyOnce

SpecD2 == InitD2 /\ [][NextD2]_vars

\* The coefficient generator, called on its own
InitGen ==
    LET md == MixedDerivative([scheme |-> "c2b1", n |-> 3], [scheme |-> "c2b2", n |-> 3]) IN
    /\ d1dx1 = md.d1dx1
    /\ d1dy1 = md.d1dy1
    /\ prefactors = md.prefactors
    /\ lastOp = "MixedDerivative"
    /\ args = NoArgs
    /\ touched = {}
    /\ result = NoResult
    /\ genArgs = NoGenArgs
    /\ genOut = <<>>

GeneratorPrefactor ==
    \E rate \in Rates, sigma \in Sigmas, spatial_grid \in Grids :
        /\ genArgs' = [rate |-> rate, sigma |-> sigma, spatial_grid |-> spatial_grid]
        /\ genOut' = generator_prefactor(rate, sigma, spatial_grid)
        /\ lastOp' = "generator_prefactor"
        /\ UNCHANGED <<d1dx1, d1dy1, prefactors, args, touched, result>>

NextGen == GeneratorPrefactor

SpecGen == InitGen /\ [][NextGen]_vars

-----------------------------------------------------------------------------
(* Properties *)

n_x == order(d1dx1)
n_y == order(d1dy1)
SetOps == {"set_prefactors_scalar", "set_prefactors_outer", "set_prefactors_flat"}

\* C1: after set_prefactors(coef_x, coef_y) the prefactor at ix * n_y + iy is
\* coef_x[ix] * coef_y[iy], for every ix and iy.
C1_OuterProduct ==
    lastOp = "set_prefactors_outer" =>
        \A ix \in 0..(n_x - 1), iy \in 0..(n_y - 1) :
            At(prefactors, ix * n_y + iy) = At(args.coef_x, ix) * At(args.coef_y, iy)

\* C2: each form of set_prefactors overwrites the whole field, so that the
\* prefactors after a call are fixed by the arguments of that call alone.
C2_FullOverwrite ==
    /\ lastOp = "set_prefactors_scalar" => prefactors = Filled(n_x * n_y, args.scalar)
    /\ lastOp = "set_prefactors_outer" => prefactors = Separable(args.coef_x, args.coef_y)
    /\ lastOp = "set_prefactors_flat" => prefactors = args.factors

\* The x operator applied along x to the y operator applied along y of func,
\* at (ix, iy), written with the weights of the two operators
RECURSIVE SumY(_, _, _, _)
SumY(func, kx, iy, ky) ==
    IF ky = n_y THEN 0
    ELSE Coef(d1dy1, iy, ky) * At(func, kx * n_y + ky) + SumY(func, kx, iy, ky + 1)

RECURSIVE SumX(_, _, _, _)
SumX(func, ix, iy, kx) ==
    IF kx = n_x THEN 0
    ELSE Coef(d1dx1, ix, kx) * SumY(func, kx, iy, 0) + SumX(func, ix, iy, kx + 1)

\* C3: d2dxdy of a field of length n_x * n_y returns a field of that length
\* whose entry i is prefactors[i] times entry i of the x operator applied
\* along x to the result of the y operator applied along y.
C3_D2dxdy ==
    (lastOp = "d2dxdy" /\ Len(args.func) = n_x * n_y) =>
        /\ result.outcome = "returned"
        /\ Len(result.value) = n_x * n_y
        /\ \A ix \in 0..(n_x - 1), iy \in 0..(n_y - 1) :
            At(result.value, ix * n_y + iy) =
                At(prefactors, ix * n_y + iy) * SumX(args.func, ix, iy, 0)

C3_Witness ==
    /\ lastOp = "d2dxdy"
    /\ Len(args.func) = n_x * n_y
    /\ n_x # n_y
    /\ prefactors = Quadratic(1, n_x * n_y)
    /\ \E i \in Indices(result.value) :
            At(result.value, i) # 0 /\ At(result.value, i) # SumX(args.func, i \div n_y, i % n_y, 0)

\* C4: d2dxdy of a field whose length is not n_x * n_y signals a contract
\* violation and returns no numeric result.
C4_MismatchSignalled ==
    (lastOp = "d2dxdy" /\ Len(args.func) # n_x * n_y) =>
        result.outcome = "contract_violation"

\* C5: the constructor leaves n_x * n_y prefactors, each 1.0.
C5_ConstructorUnitPrefactors ==
    lastOp = "MixedDerivative" =>
        /\ Len(prefactors) = n_x * n_y
        /\ \A i \in Indices(prefactors) : At(prefactors, i) = 1

C5_Witness == lastOp = "MixedDerivative" /\ n_x # n_y

\* The arguments of the documented example: rate 0.05, sigma 0.2, grid [50, 100, 150]
ScenarioArgs ==
    /\ REq(genArgs.rate, <<5, 100>>)
    /\ REq(genArgs.sigma, <<2, 10>>)
    /\ Len(genArgs.spatial_grid) = 3
    /\ \A k \in 1..3 : REq(genArgs.spatial_grid[k], RInt(50 * k))

\* C6: generator::prefactor returns three sequences of the grid's length with
\* entries -rate, rate * grid[i] and 0.5 * sigma^2 * grid[i]^2; the documented
\* example gives [-0.05, -0.05, -0.05], [2.5, 5, 7.5], [50, 200, 450].
C6_Generator ==
    lastOp = "generator_prefactor" =>
        LET grid == genArgs.spatial_grid
            rate == genArgs.rate
            sigma == genArgs.sigma
        IN  /\ Len(genOut) = 3
            /\ \A j \in 1..3 : Len(genOut[j]) = Len(grid)
            /\ \A i \in Indices(grid) :
                /\ REq(At(genOut[1], i), RNeg(rate))
                /\ REq(At(genOut[2], i), RMul(rate, At(grid, i)))
                /\ REq(At(genOut[3], i),
                       RMul(<<1, 2>>, RMul(RMul(sigma, sigma),
                                           RMul(At(grid, i), At(grid, i)))))
            /\ ScenarioArgs =>
                /\ \A k \in 1..3 : REq(genOut[1][k], <<-5, 100>>)
                /\ \A k \in 1..3 : REq(genOut[2][k], <<5 * k, 2>>)
                /\ \A k \in 1..3 : REq(genOut[3][k], RInt(50 * k * k))

C6_Witness == lastOp = "generator_prefactor" /\ ScenarioArgs

\* C7: no set_prefactors call changes d1dx1, d1dy1 or their orders.
C7_OperatorsUnchanged ==
    [][lastOp' \in SetOps =>
        /\ d1dx1' = d1dx1
        /\ d1dy1' = d1dy1
        /\ order(d1dx1') = order(d1dx1)
        /\ order(d1dy1') = order(d1dy1)]_vars

C7_Witness ==
    /\ lastOp \in SetOps
    /\ n_x # n_y
    /\ \E i \in Indices(prefactors) : At(prefactors, i) # 1

\* C8: after set_prefactors(factors) with factors of length n_x * n_y the
\* prefactors equal factors entry for entry.
C8_FlatCopy ==
    lastOp = "set_prefactors_flat" =>
        /\ Len(args.factors) = n_x * n_y
        /\ \A i \in 0..(n_x * n_y - 1) : At(prefactors, i) = At(args.factors, i)

C8_Witness ==
    /\ lastOp = "set_prefactors_flat"
    /\ args.factors = Quadratic(1, n_x * n_y)
    /\ At(prefactors, n_x * n_y - 1) # 1

UnitPrefactors == prefactors = Filled(n_x * n_y, 1)

\* C9: with unit prefactors, d2dxdy of f[ix * n_y + iy] = g[ix] * h[iy] is, at
\* ix * n_y + iy, (x operator applied to g)[ix] times (y operator applied to h)[iy].
C9_Separability ==
    \A g \in Vectors(n_x) \cup Units(n_x), h \in Vectors(n_y) \cup Units(n_y) :
        (lastOp = "d2dxdy" /\ UnitPrefactors /\ args.func = Separable(g, h)) =>
            /\ result.outcome = "returned"
            /\ \A ix \in 0..(n_x - 1), iy \in 0..(n_y - 1) :
                At(result.value, ix * n_y + iy) =
                    At(action(d1dx1, g), ix) * At(action(d1dy1, h), iy)

C9_Witness ==
    /\ lastOp = "d2dxdy"
    /\ UnitPrefactors
    /\ n_x # n_y
    /\ args.func = Separable(Quadratic(0, n_x), Quadratic(1, n_y))
    /\ result.outcome = "returned"
    /\ \E i, j \in Indices(result.value) :
            At(result.value, i) # 0 /\ At(result.value, j) # 0
            /\ At(result.value, i) # At(result.value, j)

\* C10: the prefactor field has n_x * n_y entries in every reachable state, and
\* every index of it a call reads or writes lies in 0..n_x*n_y-1.
C10_PrefactorBounds ==
    /\ Len(prefactors) = n_x * n_y
    /\ touched \subseteq 0..(n_x * n_y - 1)

C10_Witness ==
    /\ lastOp = "d2dxdy"
    /\ touched = 0..(n_x * n_y - 1)
    /\ \E i \in Indices(prefactors) : At(prefactors, i) # 1

=============================================================================
